---- MODULE Spec2Model ----
(***************************************************************************)
(* Model of server.py: a single-threaded HTTPServer on localhost:8000      *)
(* whose handler class CORSRequestHandler extends SimpleHTTPRequestHandler *)
(* by overriding end_headers.  The inherited handler and server loop are   *)
(* modelled as the Python 3.11 standard library executes them.             *)
(***************************************************************************)
EXTENDS Integers, Sequences, FiniteSets, TLC

\* ------------------------------------------------------------------ bounds
\* Connections each client may open over the life of the process.
MaxReqs == 1

Clients == {"c1", "c2"}

\* ------------------------------------------------------- program constants
port == 8000

StartupMsg == "Starting server at http://localhost:8000"
StoppedMsg == "\nServer stopped."

\* ------------------------------------------------- the served directory
\* The objects a request path can resolve to under the working directory.
Targets == {"fileA", "fileB", "secret", "dir", "dirIdx", "dirLocked", "missing"}

Kind(t) ==
    CASE t \in {"fileA", "fileB", "secret"} -> "file"
      [] t \in {"dir", "dirIdx", "dirLocked"} -> "dir"
      [] OTHER -> "none"

\* open(path, 'rb') / os.listdir(path) succeed.
Readable(t) == t \in {"fileA", "fileB", "dir", "dirIdx"}

\* The directory holds index.html or index.htm.
HasIndex(t) == t = "dirIdx"

\* File contents as the blocks copyfile transfers.
Contents(t) ==
    CASE t = "fileA" -> <<"a1", "a2">>
      [] t = "fileB" -> <<"b1", "b2">>
      [] t = "dirIdx" -> <<"index1">>
      [] OTHER -> <<>>

\* The page list_directory builds for a directory.
Listing(t) == <<"listing:" \o t>>

\* ------------------------------------------------------------- requests
\* nwords   : number of words on the request line (0 = blank line)
\* lastword : the last word when there are three or more (the version),
\*            "" on a two-word line
\* command  : first word
\* target   : what the request path resolves to
\* slash    : the URL path ends in "/"
\* ims      : If-Modified-Since header ("absent", "fresh" = not older than
\*            the file's mtime and no If-None-Match, "stale" = older)
\* long     : the request line exceeds 65536 bytes
Commands == {"GET", "HEAD", "POST"}

WellFormed ==
    { [nwords |-> n, lastword |-> v, command |-> m, target |-> t,
       slash |-> s, ims |-> i, long |-> FALSE] :
        n \in {2, 3}, v \in {"", "HTTP/1.0", "HTTP/1.1"}, m \in Commands,
        t \in Targets, s \in BOOLEAN, i \in {"absent", "fresh", "stale"} }

Malformed ==
    { [nwords |-> n, lastword |-> v, command |-> "GET", target |-> t,
       slash |-> FALSE, ims |-> "absent", long |-> l] :
        n \in {0, 1, 3, 4}, v \in {"", "HTTP/1.1", "HTTP/2.0", "HTTQ/1.1"},
        t \in {"fileA"}, l \in BOOLEAN }

\* The request lines explored: every malformed shape, and the
\* well-formed ones that take the handler down its different paths.
Requests ==
    { r \in WellFormed :
        \/ /\ r.nwords = 3 /\ r.lastword = "HTTP/1.1" /\ r.command = "GET"
           /\ (r.ims # "absent" =>
                 \/ r.target = "fileA" /\ ~r.slash
                 \/ r.target = "dirIdx" /\ r.slash /\ r.ims = "fresh")
           /\ (r.slash /\ Kind(r.target) = "file" => r.target = "fileA")
        \/ /\ r.nwords = 3 /\ r.lastword = "HTTP/1.1" /\ r.command = "HEAD"
           /\ r.ims = "absent"
           /\ \/ ~r.slash /\ r.target \in {"fileA", "missing"}
              \/ r.slash /\ r.target \in {"dir", "dirIdx"}
        \/ /\ r.nwords = 3 /\ r.lastword = "HTTP/1.1" /\ r.command = "POST"
           /\ r.ims = "absent" /\ ~r.slash /\ r.target \in {"fileA", "missing"}
        \/ /\ r.nwords = 3 /\ r.lastword = "HTTP/1.0" /\ r.command = "GET"
           /\ r.ims = "absent" /\ ~r.slash /\ r.target = "fileA"
        \/ /\ r.nwords = 2 /\ r.lastword = "" /\ r.ims = "absent"
           /\ \/ r.command = "GET" /\ ~r.slash
                    /\ r.target \in {"fileA", "missing"}
              \/ r.command = "GET" /\ r.slash /\ r.target = "dir"
              \/ r.command = "HEAD" /\ ~r.slash /\ r.target = "fileA"
              \/ r.command = "POST" /\ ~r.slash /\ r.target = "missing" }
    \cup
    { r \in Malformed :
        /\ (r.long => r.nwords = 3 /\ r.lastword = "HTTP/1.1")
        /\ (~r.long => ~(r.nwords = 3 /\ r.lastword = "HTTP/1.1"))
        /\ (r.nwords \in {0, 1} <=> r.lastword = "")
        /\ r.target = "fileA" }

NoRequest ==
    [nwords |-> 0, lastword |-> "", command |-> "", target |-> "missing",
     slash |-> FALSE, ims |-> "absent", long |-> FALSE]

\* ---------------------------------------------- BaseHTTPRequestHandler
\* What the handler writes: status line, header lines, the blank line that
\* ends the header block, and body blocks.
StatusLine(code) == [kind |-> "status", code |-> code, name |-> "", value |-> ""]
HeaderLine(keyword, value) == [kind |-> "header", code |-> 0, name |-> keyword, value |-> value]
BlankLine == [kind |-> "end", code |-> 0, name |-> "", value |-> ""]
BodyBlock(b) == [kind |-> "body", code |-> 0, name |-> "", value |-> b]
ErrorPage(code) == [kind |-> "body", code |-> code, name |-> "", value |-> "error page"]

default_request_version == "HTTP/0.9"
protocol_version == "HTTP/1.0"

\* A handler object as BaseRequestHandler.__init__ leaves it before handle().
NewHandler ==
    [request_version |-> "", command |-> "", headers_buffer |-> <<>>,
     wfile |-> <<>>, f |-> <<>>, stage |-> "new"]

send_response_only(h, code) ==
    IF h.request_version # "HTTP/0.9"
    THEN [h EXCEPT !.headers_buffer = Append(@, StatusLine(code))]
    ELSE h

send_header(h, keyword, value) ==
    IF h.request_version # "HTTP/0.9"
    THEN [h EXCEPT !.headers_buffer = Append(@, HeaderLine(keyword, value))]
    ELSE h

send_response(h, code) ==
    send_header(send_header(send_response_only(h, code),
                            "Server", "SimpleHTTP"), "Date", "now")

flush_headers(h) ==
    [h EXCEPT !.wfile = @ \o h.headers_buffer, !.headers_buffer = <<>>]

base_end_headers(h) ==
    IF h.request_version # "HTTP/0.9"
    THEN flush_headers([h EXCEPT !.headers_buffer = Append(@, BlankLine)])
    ELSE h

\* Variant of end_headers: the Expires header is left out.
end_headers_NoExpires(h) ==
    LET h1 == send_header(h, "Access-Control-Allow-Origin", "*")
        h2 == send_header(h1, "Cache-Control", "no-cache, no-store, must-revalidate")
        h3 == send_header(h2, "Pragma", "no-cache")
    IN  base_end_headers(h3)

\* Variant of end_headers: super().end_headers() is called first.
end_headers_BaseFirst(h) ==
    LET h0 == base_end_headers(h)
        h1 == send_header(h0, "Access-Control-Allow-Origin", "*")
        h2 == send_header(h1, "Cache-Control", "no-cache, no-store, must-revalidate")
        h3 == send_header(h2, "Pragma", "no-cache")
    IN  send_header(h3, "Expires", "0")

\* ------------------------------------------------- CORSRequestHandler
end_headers(h) ==
    LET h1 == send_header(h, "Access-Control-Allow-Origin", "*")
        h2 == send_header(h1, "Cache-Control", "no-cache, no-store, must-revalidate")
        h3 == send_header(h2, "Pragma", "no-cache")
        h4 == send_header(h3, "Expires", "0")
    IN  base_end_headers(h4)

\* Variant of send_error: the error path ends the headers with the base
\* class's end_headers, bypassing the override.
send_error_BaseEnd(h, code) ==
    LET h1 == send_header(send_response(h, code), "Connection", "close")
        hasBody == code >= 200 /\ code \notin {204, 205, 304}
        h2 == IF hasBody
              THEN send_header(send_header(h1, "Content-Type", "text/html;charset=utf-8"),
                               "Content-Length", "len(error page)")
              ELSE h1
        h3 == base_end_headers(h2)
    IN  IF h.command # "HEAD" /\ hasBody
        THEN [h3 EXCEPT !.wfile = Append(@, ErrorPage(code))]
        ELSE h3

\* ---------------------------------------------- BaseHTTPRequestHandler
send_error(h, code) ==
    LET h1 == send_header(send_response(h, code), "Connection", "close")
        hasBody == code >= 200 /\ code \notin {204, 205, 304}
        h2 == IF hasBody
              THEN send_header(send_header(h1, "Content-Type", "text/html;charset=utf-8"),
                               "Content-Length", "len(error page)")
              ELSE h1
        h3 == end_headers(h2)
    IN  IF h.command # "HEAD" /\ hasBody
        THEN [h3 EXCEPT !.wfile = Append(@, ErrorPage(code))]
        ELSE h3

ValidVersions == {"HTTP/1.0", "HTTP/1.1", "HTTP/2.0"}

\* parse_request: the handler after parsing, with stage "parsed" on success
\* and "done" when it returned False (an error reply, if any, already sent).
parse_request(h, r) ==
    LET h0 == [h EXCEPT !.command = "", !.request_version = default_request_version]
        failed(x) == [x EXCEPT !.stage = "done"]
    IN  IF r.nwords = 0 THEN failed(h0)
        ELSE IF r.nwords >= 3 /\ r.lastword \notin ValidVersions
        THEN failed(send_error(h0, 400))
        ELSE IF r.nwords >= 3 /\ r.lastword = "HTTP/2.0"
        THEN failed(send_error(h0, 505))
        ELSE LET h1 == IF r.nwords >= 3
                       THEN [h0 EXCEPT !.request_version = r.lastword]
                       ELSE h0
             IN  IF ~(2 <= r.nwords /\ r.nwords <= 3)
                 THEN failed(send_error(h1, 400))
                 ELSE IF r.nwords = 2 /\ r.command # "GET"
                 THEN failed(send_error(h1, 400))
                 ELSE [h1 EXCEPT !.command = r.command, !.stage = "parsed"]

\* ---------------------------------------------- SimpleHTTPRequestHandler
\* Variant of list_directory: the page is built but not returned for copying.
list_directory_NotReturned(h, t) ==
    IF ~Readable(t)
    THEN send_error(h, 404)
    ELSE LET h1 == send_response(h, 200)
             h2 == send_header(h1, "Content-type", "text/html")
             h3 == send_header(h2, "Content-Length", "len(listing)")
         IN  end_headers(h3)

\* list_directory: the handler with the listing page open in f, or after
\* the error reply when the directory cannot be listed.
list_directory(h, t) ==
    IF ~Readable(t)
    THEN send_error(h, 404)
    ELSE LET h1 == send_response(h, 200)
             h2 == send_header(h1, "Content-type", "text/html")
             h3 == send_header(h2, "Content-Length", "len(listing)")
         IN  [end_headers(h3) EXCEPT !.f = Listing(t)]

\* Variant of send_head: a path that exists but cannot be opened is
\* reported as 403.
send_head_Forbidden(h, r) ==
    LET t == r.target
        serve_file ==
            IF r.ims = "fresh"
            THEN end_headers(send_response(h, 304))
            ELSE LET h1 == send_response(h, 200)
                     h2 == send_header(h1, "Content-type", "guess_type(path)")
                     h3 == send_header(h2, "Content-Length", "st_size")
                     h4 == send_header(h3, "Last-Modified", "st_mtime")
                 IN  [end_headers(h4) EXCEPT !.f = Contents(t)]
    IN  IF Kind(t) = "dir"
        THEN IF ~r.slash
             THEN LET h1 == send_response(h, 301)
                      h2 == send_header(h1, "Location", "path/")
                      h3 == send_header(h2, "Content-Length", "0")
                  IN  end_headers(h3)
             ELSE IF HasIndex(t)
             THEN serve_file
             ELSE IF ~Readable(t) THEN send_error(h, 403)
             ELSE list_directory(h, t)
        ELSE IF r.slash
        THEN send_error(h, 404)
        ELSE IF Kind(t) = "none"
        THEN send_error(h, 404)
        ELSE IF ~Readable(t)
        THEN send_error(h, 403)
        ELSE serve_file

\* send_head: status line and headers for GET and HEAD; f holds the open
\* file (its blocks) when there is one to copy.
send_head(h, r) ==
    LET t == r.target
        serve_file ==
            IF r.ims = "fresh"
            THEN end_headers(send_response(h, 304))
            ELSE LET h1 == send_response(h, 200)
                     h2 == send_header(h1, "Content-type", "guess_type(path)")
                     h3 == send_header(h2, "Content-Length", "st_size")
                     h4 == send_header(h3, "Last-Modified", "st_mtime")
                 IN  [end_headers(h4) EXCEPT !.f = Contents(t)]
    IN  IF Kind(t) = "dir"
        THEN IF ~r.slash
             THEN LET h1 == send_response(h, 301)
                      h2 == send_header(h1, "Location", "path/")
                      h3 == send_header(h2, "Content-Length", "0")
                  IN  end_headers(h3)
             ELSE IF HasIndex(t)
             THEN serve_file
             ELSE list_directory(h, t)
        ELSE IF r.slash
        THEN send_error(h, 404)
        ELSE IF Kind(t) = "none" \/ ~Readable(t)
        THEN send_error(h, 404)
        ELSE serve_file

\* do_GET up to the call of copyfile: stage "copy" while blocks remain.
do_GET(h, r) ==
    LET h1 == send_head(h, r)
    IN  [h1 EXCEPT !.stage = IF h1.f # <<>> THEN "copy" ELSE "done"]

do_HEAD(h, r) ==
    [send_head(h, r) EXCEPT !.f = <<>>, !.stage = "done"]

\* Variant of copyfile: only the first block is copied.
copyfile_FirstBlockOnly(h) ==
    [h EXCEPT !.wfile = Append(@, BodyBlock(Head(h.f))),
              !.f = <<>>,
              !.stage = "done"]

\* copyfile, one block.
copyfile(h) ==
    [h EXCEPT !.wfile = Append(@, BodyBlock(Head(h.f))),
              !.f = Tail(@),
              !.stage = IF Len(h.f) = 1 THEN "done" ELSE "copy"]

\* ---------------------------------------------- BaseHTTPRequestHandler
handle_one_request(h, r) ==
    IF r.long
    THEN [send_error([h EXCEPT !.request_version = "", !.command = ""], 414)
            EXCEPT !.stage = "done"]
    ELSE LET h1 == parse_request(h, r)
         IN  IF h1.stage = "done" THEN h1
             ELSE IF h1.command = "GET" THEN do_GET(h1, r)
             ELSE IF h1.command = "HEAD" THEN do_HEAD(h1, r)
             ELSE [send_error(h1, 501) EXCEPT !.stage = "done"]

\* ------------------------------------------------ reading a response
IsBody(x) == x.kind = "body"
IsHeader(x) == x.kind = "header"

\* Status code on the status line; 0 when the response has no status line.
Status(w) == IF w # <<>> /\ w[1].kind = "status" THEN w[1].code ELSE 0

\* The body blocks, in the order received.
Body(w) == LET b == SelectSeq(w, IsBody) IN [i \in 1..Len(b) |-> b[i].value]

FixedHeaders ==
    << HeaderLine("Access-Control-Allow-Origin", "*"),
       HeaderLine("Cache-Control", "no-cache, no-store, must-revalidate"),
       HeaderLine("Pragma", "no-cache"),
       HeaderLine("Expires", "0") >>

\* All four fixed headers are in w, and no header of those names has
\* another value.
HasFixedHeaders(w) ==
    \A i \in 1..4 :
        /\ \E j \in 1..Len(w) : w[j] = FixedHeaders[i]
        /\ \A j \in 1..Len(w) :
              IsHeader(w[j]) /\ w[j].name = FixedHeaders[i].name
                  => w[j].value = FixedHeaders[i].value

FixedNames == { FixedHeaders[i].name : i \in 1..4 }

\* w is: status line, the base handler's headers, the four fixed headers
\* once each and in order, the blank line, then body blocks only.
FixedHeadersLast(w) ==
    \E k \in 6..Len(w) :
        /\ w[k] = BlankLine
        /\ w[1].kind = "status"
        /\ \A j \in 2..(k - 1) : IsHeader(w[j])
        /\ \A j \in 2..(k - 5) : w[j].name \notin FixedNames
        /\ \A i \in 1..4 : w[k - 5 + i] = FixedHeaders[i]
        /\ \A j \in (k + 1)..Len(w) : IsBody(w[j])

\* ------------------------------------------------------------- state
VARIABLES
    pc,          \* position of the main program
    stdout,      \* lines printed
    stderr,      \* uncaught exception reported by the interpreter, if any
    exitStatus,  \* process exit status, -1 while running
    portFree,    \* environment: localhost:8000 can be bound
    sigint,      \* "none", "pending" (delivered, not yet raised), "taken"
    conn,        \* per client: "none", "queued", "active", "closed", "aborted"
    req,         \* per client: the request sent on its current connection
    hd,          \* per client: the handler object serving its connection
    cur,         \* the client whose request the loop is handling, or "none"
    nreq         \* per client: connections opened so far

vars == <<pc, stdout, stderr, exitStatus, portFree, sigint, conn, req, hd, cur, nreq>>

main == <<pc, stdout, stderr, exitStatus>>
net == <<conn, req, hd, cur, nreq>>

Init ==
    /\ pc = "start"
    /\ stdout = <<>>
    /\ stderr = <<>>
    /\ exitStatus = -1
    /\ portFree \in BOOLEAN
    /\ sigint = "none"
    /\ conn = [c \in Clients |-> "none"]
    /\ req = [c \in Clients |-> NoRequest]
    /\ hd = [c \in Clients |-> NewHandler]
    /\ cur = "none"
    /\ nreq = [c \in Clients |-> 0]

\* ------------------------------------------------------- main program
\* print(f"Starting server at http://localhost:{port}")
PrintBanner ==
    /\ pc = "start"
    /\ stdout' = Append(stdout, StartupMsg)
    /\ pc' = "banner"
    /\ UNCHANGED <<stderr, exitStatus, portFree, sigint, net>>

\* Variant of Bind: the server is constructed inside the try block, with
\* the except clause catching the bind error as well.
Bind_InsideTry ==
    /\ pc = "banner"
    /\ pc' = IF portFree THEN "serving" ELSE "caught"
    /\ UNCHANGED <<stdout, stderr, exitStatus, portFree, sigint, net>>

\* httpd = HTTPServer(('localhost', port), CORSRequestHandler), then entry
\* into serve_forever; a bind error is raised outside the try block.
Bind ==
    /\ pc = "banner"
    /\ IF portFree
       THEN /\ pc' = "serving"
            /\ UNCHANGED <<stderr, exitStatus>>
       ELSE /\ pc' = "exited"
            /\ stderr' = Append(stderr, "OSError")
            /\ exitStatus' = 1
    /\ UNCHANGED <<stdout, portFree, sigint, net>>

\* except KeyboardInterrupt: print("\nServer stopped.")
PrintStopped ==
    /\ pc = "caught"
    /\ stdout' = Append(stdout, StoppedMsg)
    /\ pc' = "stopping"
    /\ UNCHANGED <<stderr, exitStatus, portFree, sigint, net>>

\* sys.exit(0)
SysExit ==
    /\ pc = "stopping"
    /\ pc' = "exited"
    /\ exitStatus' = 0
    /\ UNCHANGED <<stdout, stderr, portFree, sigint, net>>

\* ---------------------------------------------------------- environment
\* A client connects and sends its request; the connection waits in the
\* listen queue of the bound socket.
Connect(c, r) ==
    /\ pc \in {"serving", "handling"}
    /\ conn[c] \in {"none", "closed"}
    /\ nreq[c] < MaxReqs
    /\ conn' = [conn EXCEPT ![c] = "queued"]
    /\ req' = [req EXCEPT ![c] = r]
    /\ hd' = [hd EXCEPT ![c] = NewHandler]
    /\ nreq' = [nreq EXCEPT ![c] = @ + 1]
    /\ UNCHANGED <<main, portFree, sigint, cur>>

\* The interrupt signal is delivered to the process.
Sigint ==
    /\ sigint = "none"
    /\ pc # "exited"
    /\ sigint' = "pending"
    /\ UNCHANGED <<main, portFree, net>>

\* -------------------------------------------------------- serve_forever
\* select() reports the socket readable; _handle_request_noblock accepts
\* one connection and constructs its handler.
Accept(c) ==
    /\ pc = "serving"
    /\ conn[c] = "queued"
    /\ pc' = "handling"
    /\ cur' = c
    /\ conn' = [conn EXCEPT ![c] = "active"]
    /\ UNCHANGED <<stdout, stderr, exitStatus, portFree, sigint, req, hd, nreq>>

\* finish_request constructs a fresh handler for the connection, whose
\* handle() runs handle_one_request once (protocol_version is HTTP/1.0, so
\* the connection is never kept alive).
handle ==
    [r \in Requests |-> handle_one_request(NewHandler, r)]

\* handle(): one request, through the end of the header block.
HandleOneRequest ==
    /\ pc = "handling"
    /\ hd[cur].stage = "new"
    /\ hd' = [hd EXCEPT ![cur] = handle[req[cur]]]
    /\ UNCHANGED <<main, portFree, sigint, conn, req, cur, nreq>>

\* copyfile(f, self.wfile): one block of the body.
CopyBlock ==
    /\ pc = "handling"
    /\ hd[cur].stage = "copy"
    /\ hd' = [hd EXCEPT ![cur] = copyfile(hd[cur])]
    /\ UNCHANGED <<main, portFree, sigint, conn, req, cur, nreq>>

\* Variant of ShutdownRequest: an error reply is raised out of the loop as
\* an uncaught exception.
ShutdownRequest_ErrorEscapes ==
    /\ pc = "handling"
    /\ hd[cur].stage = "done"
    /\ conn' = [conn EXCEPT ![cur] = "closed"]
    /\ cur' = "none"
    /\ IF Status(hd[cur].wfile) >= 400
       THEN /\ pc' = "exited"
            /\ stderr' = Append(stderr, "Exception")
            /\ exitStatus' = 1
       ELSE /\ pc' = "serving"
            /\ UNCHANGED <<stderr, exitStatus>>
    /\ UNCHANGED <<stdout, portFree, sigint, req, hd, nreq>>

\* Variant of ShutdownRequest: handle_request() in place of serve_forever(),
\* so the program ends after one request.
ShutdownRequest_Once ==
    /\ pc = "handling"
    /\ hd[cur].stage = "done"
    /\ conn' = [conn EXCEPT ![cur] = "closed"]
    /\ cur' = "none"
    /\ pc' = "exited"
    /\ exitStatus' = 0
    /\ UNCHANGED <<stdout, stderr, portFree, sigint, req, hd, nreq>>

\* The handler returned; shutdown_request closes the connection and the
\* loop goes back to select().
ShutdownRequest ==
    /\ pc = "handling"
    /\ hd[cur].stage = "done"
    /\ conn' = [conn EXCEPT ![cur] = "closed"]
    /\ cur' = "none"
    /\ pc' = "serving"
    /\ UNCHANGED <<stdout, stderr, exitStatus, portFree, sigint, req, hd, nreq>>

\* Variant of KeyboardInterrupt: raised while a request is handled, it is
\* caught like a request error and the loop goes on.
KeyboardInterrupt_Swallowed ==
    /\ sigint = "pending"
    /\ pc \in {"start", "banner", "serving", "handling"}
    /\ sigint' = "taken"
    /\ IF pc = "handling"
       THEN /\ pc' = "serving"
            /\ conn' = [c \in Clients |-> IF c = cur THEN "aborted" ELSE conn[c]]
            /\ cur' = "none"
            /\ UNCHANGED <<stderr, exitStatus>>
       ELSE IF pc = "serving"
       THEN /\ pc' = "caught"
            /\ UNCHANGED <<stderr, exitStatus, conn, cur>>
       ELSE /\ pc' = "exited"
            /\ stderr' = Append(stderr, "KeyboardInterrupt")
            /\ exitStatus' \in {1, 130}
            /\ UNCHANGED <<conn, cur>>
    /\ UNCHANGED <<stdout, portFree, req, hd, nreq>>

\* The pending signal is raised as KeyboardInterrupt in the main thread.
\* Inside serve_forever it unwinds to the except clause (closing the
\* connection being handled); before the try block it is uncaught.
KeyboardInterrupt ==
    /\ sigint = "pending"
    /\ pc \in {"start", "banner", "serving", "handling"}
    /\ sigint' = "taken"
    /\ IF pc \in {"serving", "handling"}
       THEN /\ pc' = "caught"
            /\ conn' = [c \in Clients |-> IF c = cur THEN "aborted" ELSE conn[c]]
            /\ cur' = "none"
            /\ UNCHANGED <<stderr, exitStatus>>
       ELSE /\ pc' = "exited"
            /\ stderr' = Append(stderr, "KeyboardInterrupt")
            /\ exitStatus' \in {1, 130}
            /\ UNCHANGED <<conn, cur>>
    /\ UNCHANGED <<stdout, portFree, req, hd, nreq>>

\* The steps of the one thread that runs the program.
MainThread ==
    \/ PrintBanner
    \/ Bind
    \/ PrintStopped
    \/ SysExit
    \/ \E c \in Clients : Accept(c)
    \/ HandleOneRequest
    \/ CopyBlock
    \/ ShutdownRequest

Environment ==
    \/ \E c \in Clients, r \in Requests : Connect(c, r)
    \/ Sigint

Next == MainThread \/ KeyboardInterrupt \/ Environment

Spec == Init /\ [][Next]_vars

\* The interpreter keeps running the main thread and raises a delivered
\* signal in it, and clients read what is sent to them; connections and the
\* signal itself come from outside.
Fairness == WF_vars(MainThread) /\ WF_vars(KeyboardInterrupt)

LiveSpec == Init /\ [][Next]_vars /\ Fairness

TypeOK ==
    /\ pc \in {"start", "banner", "serving", "handling", "caught", "stopping", "exited"}
    /\ exitStatus \in {-1, 0, 1, 130}
    /\ sigint \in {"none", "pending", "taken"}
    /\ cur \in Clients \cup {"none"}
    /\ \A c \in Clients :
        /\ conn[c] \in {"none", "queued", "active", "closed", "aborted"}
        /\ req[c] \in Requests \cup {NoRequest}
        /\ hd[c].stage \in {"new", "copy", "done"}
        /\ nreq[c] \in 0..MaxReqs
    /\ (pc = "handling") = (cur # "none")
    /\ \A c \in Clients : (conn[c] = "active") = (cur = c)

\* The response on c's connection is complete.
Answered(c) == conn[c] = "closed" /\ hd[c].wfile # <<>>

\* A request line of three words with an HTTP/1.x version.
Http1(r) == r.nwords = 3 /\ r.lastword \in {"HTTP/1.0", "HTTP/1.1"} /\ ~r.long

\* ------------------------------------------------------------------ C1
\* C1 as stated: every response sent, whatever its status, carries the
\* four fixed headers with their exact values.
C1_AsStated ==
    \A c \in Clients : Answered(c) => HasFixedHeaders(hd[c].wfile)

\* C1 amended: every response that has a status line carries the four fixed
\* headers with their exact values; a response sent while the handler's
\* request version is HTTP/0.9 has neither status line nor headers.
C1_FixedHeaders ==
    \A c \in Clients :
        hd[c].wfile # <<>> =>
            IF hd[c].request_version = "HTTP/0.9"
            THEN \A j \in 1..Len(hd[c].wfile) : IsBody(hd[c].wfile[j])
            ELSE Status(hd[c].wfile) # 0 /\ HasFixedHeaders(hd[c].wfile)

C1_Witness ==
    \E c, d \in Clients :
        /\ Answered(c) /\ Status(hd[c].wfile) = 404 /\ HasFixedHeaders(hd[c].wfile)
        /\ Answered(d) /\ Status(hd[d].wfile) = 301 /\ HasFixedHeaders(hd[d].wfile)

\* ------------------------------------------------------------------ C2
ReadableFile(t) == Kind(t) = "file" /\ Readable(t)

\* C2 as stated: every request for an existing readable regular file is
\* answered 200 with the file's contents and the four fixed headers.
C2_AsStated ==
    \A c \in Clients :
        conn[c] = "closed" /\ Http1(req[c]) /\ ReadableFile(req[c].target) =>
            /\ Status(hd[c].wfile) = 200
            /\ Body(hd[c].wfile) = Contents(req[c].target)
            /\ HasFixedHeaders(hd[c].wfile)

\* C2 amended: a GET request with an HTTP/1.x request line, a URL path not
\* ending in a slash and no If-Modified-Since date at or after the file's
\* modification time, for an existing readable regular file, is answered 200
\* with the file's contents and the four fixed headers.
C2_FileServed ==
    \A c \in Clients :
        /\ conn[c] = "closed" /\ Http1(req[c]) /\ ReadableFile(req[c].target)
        /\ req[c].command = "GET" /\ ~req[c].slash /\ req[c].ims # "fresh"
        => /\ Status(hd[c].wfile) = 200
           /\ Body(hd[c].wfile) = Contents(req[c].target)
           /\ HasFixedHeaders(hd[c].wfile)

C2_Witness ==
    \E c \in Clients :
        /\ conn[c] = "closed" /\ Http1(req[c]) /\ req[c].target = "fileA"
        /\ req[c].command = "GET" /\ ~req[c].slash /\ req[c].ims = "stale"
        /\ Status(hd[c].wfile) = 200 /\ Body(hd[c].wfile) = <<"a1", "a2">>

\* ------------------------------------------------------------------ C3
\* C3 as stated: every request for a path that does not exist is answered
\* 404 with the four fixed headers.
C3_AsStated ==
    \A c \in Clients :
        /\ conn[c] = "closed" /\ Kind(req[c].target) = "none"
        /\ (Http1(req[c]) \/ req[c].nwords = 2)
        => Status(hd[c].wfile) = 404 /\ HasFixedHeaders(hd[c].wfile)

\* C3 amended: a GET or HEAD request with an HTTP/1.x request line for a
\* path that does not exist is answered 404 with the four fixed headers.
C3_NotFound ==
    \A c \in Clients :
        /\ conn[c] = "closed" /\ Kind(req[c].target) = "none"
        /\ Http1(req[c]) /\ req[c].command \in {"GET", "HEAD"}
        => Status(hd[c].wfile) = 404 /\ HasFixedHeaders(hd[c].wfile)

C3_Witness ==
    \E c \in Clients :
        /\ conn[c] = "closed" /\ req[c].target = "missing" /\ Http1(req[c])
        /\ req[c].command = "HEAD"
        /\ Status(hd[c].wfile) = 404 /\ HasFixedHeaders(hd[c].wfile)

\* ------------------------------------------------------------------ C4
Unreadable(r) ==
    /\ Kind(r.target) # "none" /\ ~Readable(r.target)
    /\ (Kind(r.target) = "dir" => r.slash)

\* C4 as stated: a request whose resolved path exists but cannot be read is
\* answered 403.
C4_AsStated ==
    \A c \in Clients :
        /\ conn[c] = "closed" /\ Http1(req[c]) /\ Unreadable(req[c])
        /\ req[c].command \in {"GET", "HEAD"}
        => Status(hd[c].wfile) = 403

\* C4 amended: a GET or HEAD request with an HTTP/1.x request line whose
\* resolved path exists but cannot be read (a file that cannot be opened, a
\* directory asked for with a trailing slash that cannot be listed) is
\* answered 404, not 403.
C4_UnreadableIs404 ==
    \A c \in Clients :
        /\ conn[c] = "closed" /\ Http1(req[c]) /\ Unreadable(req[c])
        /\ req[c].command \in {"GET", "HEAD"}
        => Status(hd[c].wfile) = 404

C4_Witness ==
    \E c, d \in Clients :
        /\ conn[c] = "closed" /\ Http1(req[c]) /\ req[c].target = "secret"
        /\ req[c].command = "GET" /\ Status(hd[c].wfile) = 404
        /\ conn[d] = "closed" /\ Http1(req[d]) /\ req[d].target = "dirLocked"
        /\ req[d].slash /\ Status(hd[d].wfile) = 404

\* ------------------------------------------------------------------ C5
\* C5 as stated: every request whose resolved path is a directory is
\* answered 200 with the listing of that directory, trailing slash or not,
\* index file or not.
C5_AsStated ==
    \A c \in Clients :
        /\ conn[c] = "closed" /\ Http1(req[c]) /\ req[c].command = "GET"
        /\ Kind(req[c].target) = "dir" /\ Readable(req[c].target)
        => Status(hd[c].wfile) = 200 /\ Body(hd[c].wfile) = Listing(req[c].target)

\* C5 amended: a GET request with an HTTP/1.x request line whose resolved
\* path is a listable directory without index.html or index.htm and whose
\* URL path ends in a slash is answered 200 with the listing; without the
\* trailing slash the answer is a 301 redirect with no body, and with an
\* index file the index file is served.
C5_Directory ==
    \A c \in Clients :
        /\ conn[c] = "closed" /\ Http1(req[c]) /\ req[c].command = "GET"
        /\ Kind(req[c].target) = "dir"
        => /\ ~req[c].slash =>
                Status(hd[c].wfile) = 301 /\ Body(hd[c].wfile) = <<>>
           /\ req[c].slash /\ ~HasIndex(req[c].target) /\ Readable(req[c].target) =>
                Status(hd[c].wfile) = 200 /\ Body(hd[c].wfile) = Listing(req[c].target)
           /\ req[c].slash /\ HasIndex(req[c].target) /\ req[c].ims # "fresh" =>
                Status(hd[c].wfile) = 200 /\ Body(hd[c].wfile) = Contents(req[c].target)

C5_Witness ==
    \E c, d \in Clients :
        /\ conn[c] = "closed" /\ Http1(req[c]) /\ req[c].command = "GET"
        /\ req[c].target = "dir" /\ req[c].slash
        /\ Status(hd[c].wfile) = 200 /\ Body(hd[c].wfile) = Listing("dir")
        /\ conn[d] = "closed" /\ Http1(req[d]) /\ req[d].command = "GET"
        /\ req[d].target = "dirIdx" /\ req[d].slash
        /\ Status(hd[d].wfile) = 200 /\ Body(hd[d].wfile) = <<"index1">>

\* ------------------------------------------------------------------ C6
ServerLoop == {"serving", "handling"}

\* C6: once the accept loop is running, a delivered interrupt leads to the
\* loop stopping, then "\nServer stopped." being printed, then exit with
\* status 0; after the interrupt is raised no connection is accepted or
\* served, and the shutdown line is printed only after the loop stopped.
C6_InterruptStops ==
    /\ [](sigint = "taken" =>
            /\ pc \in {"caught", "stopping", "exited"}
            /\ cur = "none"
            /\ \A c \in Clients : conn[c] # "active")
    /\ [][sigint = "taken" => conn' = conn /\ hd' = hd]_vars
    /\ [](Len(stdout) = 2 =>
            /\ stdout = <<StartupMsg, StoppedMsg>>
            /\ pc \in {"stopping", "exited"} /\ sigint = "taken")
    /\ [](exitStatus = 0 => pc = "exited" /\ Len(stdout) = 2)
    /\ ((sigint = "pending" /\ pc \in ServerLoop)
            ~> (pc = "exited" /\ exitStatus = 0 /\ Len(stdout) = 2))

\* Exit 0 after an interrupt that cut a request short.
C6_Witness ==
    /\ pc = "exited" /\ exitStatus = 0 /\ sigint = "taken"
    /\ stdout = <<StartupMsg, StoppedMsg>>
    /\ \E c \in Clients : conn[c] = "aborted"

C8_AsStated ==
    stderr = <<"OSError">> =>
        /\ pc = "exited" /\ exitStatus # 0
        /\ stdout = <<>>

\* C8 amended: when the bind fails the process never enters the accept
\* loop, never prints the shutdown line and exits non-zero; the startup
\* line has already been printed, because it is printed before the bind.
C8_BindFailureFatal ==
    /\ stderr = <<"OSError">> =>
          /\ pc = "exited" /\ exitStatus # 0
          /\ stdout = <<StartupMsg>>
    /\ ~portFree =>
          /\ pc \in {"start", "banner", "exited"}
          /\ exitStatus # 0
          /\ \A i \in 1..Len(stdout) : stdout[i] # StoppedMsg
          /\ \A c \in Clients : conn[c] = "none"

C8_Witness ==
    /\ stderr = <<"OSError">> /\ pc = "exited" /\ exitStatus = 1
    /\ stdout = <<StartupMsg>>

\* ------------------------------------------------------------------ C9
PlainGetFile(r) ==
    /\ Http1(r) /\ r.command = "GET" /\ ~r.slash /\ r.ims # "fresh"
    /\ ReadableFile(r.target)

\* Both clients have a request for a different file outstanding.
Concurrent ==
    /\ \A c \in Clients : conn[c] \in {"queued", "active"} /\ PlainGetFile(req[c])
    /\ req["c1"].target # req["c2"].target

IsPrefix(a, b) == Len(a) <= Len(b) /\ \A i \in 1..Len(a) : a[i] = b[i]

\* A well-formed 200 reply whose body is exactly the blocks of t.
Exactly200(w, t) ==
    /\ Status(w) = 200
    /\ FixedHeadersLast(w)
    /\ Body(w) = Contents(t)

\* C9: two GET requests for two different existing files outstanding at
\* the same time are both eventually answered (unless an interrupt
\* arrives); a request does not change while it is outstanding, every
\* answer to such a request is a 200 with exactly the blocks of its own
\* file, and at no time does a client hold a block of the other's file.
C9_ConcurrentRequests ==
    /\ [](\A c \in Clients :
            PlainGetFile(req[c]) =>
                /\ IsPrefix(Body(hd[c].wfile), Contents(req[c].target))
                /\ conn[c] = "closed" => Exactly200(hd[c].wfile, req[c].target))
    /\ [][\A c \in Clients :
            conn[c] \in {"queued", "active"} => req'[c] = req[c]]_vars
    /\ \A c \in Clients :
         Concurrent ~> (conn[c] = "closed" \/ sigint # "none")

\* One reply is complete while the other client's request is still queued.
C9_Witness ==
    /\ Concurrent
    /\ sigint = "none"
    /\ \E c \in Clients :
          /\ conn[c] = "active" /\ hd[c].stage = "done"
          /\ Exactly200(hd[c].wfile, req[c].target)

\* ----------------------------------------------------------------- C10
\* C10 as stated: in every response the four fixed headers are appended
\* once each, after the base handler's headers and before the blank line
\* and the body.
C10_AsStated ==
    \A c \in Clients : hd[c].wfile # <<>> => FixedHeadersLast(hd[c].wfile)

\* C10 amended: in every response to a request whose version is not
\* HTTP/0.9 the four fixed headers are appended once each, after the base
\* handler's headers and before the blank line and the body, and nothing is
\* left unflushed; for HTTP/0.9 end_headers adds nothing.
C10_HeadersLast ==
    \A c \in Clients :
        /\ hd[c].headers_buffer = <<>>
        /\ hd[c].wfile # <<>> /\ hd[c].request_version # "HTTP/0.9" =>
              FixedHeadersLast(hd[c].wfile)
        /\ hd[c].request_version = "HTTP/0.9" =>
              \A j \in 1..Len(hd[c].wfile) : IsBody(hd[c].wfile[j])

\* A 200 reply whose body is still being copied, headers already in place.
C10_Witness ==
    \E c \in Clients :
        /\ conn[c] = "active" /\ hd[c].stage = "copy"
        /\ Len(Body(hd[c].wfile)) = 1
        /\ FixedHeadersLast(hd[c].wfile)

====
